---- MODULE Spec2Model ----
(***************************************************************************)
(* Conway's Game of Life (src/gameOfLife.py): the class gameOfLife with    *)
(* its sparse set of alive cells, and the driving program of __main__.     *)
(*                                                                         *)
(* Python integers are unbounded, so the only limits on a coordinate are   *)
(* the two literals of isWithinBounds, -(2 ** 63) and 2 ** 63 - 1.  The    *)
(* model keeps the shape of that range, MinCoord = -(MaxCoord + 1), and    *)
(* scales MaxCoord down so that the boundary is within reach.              *)
(***************************************************************************)
EXTENDS Integers, Sequences, FiniteSets, TLC

\* ---------------------------------------------------------------- bounds
\* Stands for 2 ** 63 - 1, the largest coordinate isWithinBounds accepts.
MaxCoord == 1
\* addAliveCell is offered only while fewer than MaxLive cells are alive.
MaxLive == 4
\* The largest arbitrary set of cells a simulation starts from.
MaxSeed == 2
\* simulateGeneration is offered only while curGen < MaxGen.
MaxGen == 2
\* The longest standard input the program is started with, in lines.
MaxLines == 3
\* The host's input system delivers at most MaxEvents events.
MaxEvents == 1
MaxDrawn == 2
MaxOrdered == 3

\* Stands for -(2 ** 63).
MinCoord == -(MaxCoord + 1)

\* ------------------------------------------------------- class constants
NEIGHBOUR_ADJUSTMENT ==
    << <<-1, -1>>, <<-1, 0>>, <<-1, 1>>,
       << 0, -1>>, << 0, 0>>, << 0, 1>>,
       << 1, -1>>, << 1, 0>>, << 1, 1>> >>

SIZE_OF_DISPLAY_GRID == 20
SCREEN_WIDTH == 1900
SCREEN_HEIGHT == 1000
CELL_PIXEL_SIZE == 10

\* ------------------------------------------------------------- the state
VARIABLES
    curGenAliveCells,   \* self.curGenAliveCells
    nextGenAliveCells,  \* self.nextGenAliveCells
    curGen,             \* self.curGen
    stdout,             \* what the latest call printed, line by line
    surface,            \* the rectangles the latest call drew
    work,               \* loop iterations the latest call went through
    call,               \* the latest call: its name and the state it began in
    pc,                 \* where the program of __main__ stands
    running,            \* the variable running of __main__
    stdin,              \* the lines of standard input not read yet
    events,             \* pygame's queue of pending events
    delivered,          \* how many events the host has delivered
    keyGen,             \* the generation of the frame in progress when a key
                        \* was first pressed inside the loop; -1 before that
    typed,              \* the whole standard input the program was started with
    shown,              \* the generations printGrid printed and drawCells drew
                        \* for the program, in the order of the calls
    loop                \* where a simulateGeneration followed pass by pass
                        \* stands in its loops: at which statement, the alive
                        \* cells the outer loop has yet to reach, aliveCell, i;
                        \* and of the call in progress or the last one: the
                        \* order the alive cells came in, and whether a pass
                        \* met a cell already in self.nextGenAliveCells

gameVars == <<curGenAliveCells, nextGenAliveCells, curGen, stdout, surface, work, call>>
mainVars == <<pc, running, stdin, events, delivered, keyGen, typed, shown>>
vars == <<curGenAliveCells, nextGenAliveCells, curGen, stdout, surface, work, call,
          pc, running, stdin, events, delivered, keyGen, typed, shown, loop>>

\* Every in-range cell, and the coordinates a caller passes to addAliveCell:
\* the origin, the two ends of the range and the values one beyond them.
Coords == MinCoord .. MaxCoord
Cells == Coords \X Coords
InputCoords == { MinCoord - 1, MinCoord, 0, MaxCoord, MaxCoord + 1 }

\* ------------------------------------------------------ helper methods
\* range(len(NEIGHBOUR_ADJUSTMENT)): Python indexes from 0, TLA+ from 1.
Offsets == 0 .. (Len(NEIGHBOUR_ADJUSTMENT) - 1)

\* A neighbour computed in fixed-width arithmetic that wraps around the range.
getNthNeighbour_Wrapping(cell, n) ==
    LET width == MaxCoord - MinCoord + 1
        wrap(v) == ((v - MinCoord) % width) + MinCoord
    IN  << wrap(cell[1] + NEIGHBOUR_ADJUSTMENT[n + 1][1]),
           wrap(cell[2] + NEIGHBOUR_ADJUSTMENT[n + 1][2]) >>

getNthNeighbour(cell, n) ==
    << cell[1] + NEIGHBOUR_ADJUSTMENT[n + 1][1],
       cell[2] + NEIGHBOUR_ADJUSTMENT[n + 1][2] >>

\* The upper end of the range taken as exclusive.
isWithinBounds_ExclusiveMax(cell) ==
    /\ MinCoord <= cell[1] /\ cell[1] < MaxCoord
    /\ MinCoord <= cell[2] /\ cell[2] < MaxCoord

isWithinBounds(cell) ==
    /\ MinCoord <= cell[1] /\ cell[1] <= MaxCoord
    /\ MinCoord <= cell[2] /\ cell[2] <= MaxCoord

getCellScreenCoordinateX(cell) == (SCREEN_WIDTH \div 2) + cell[1] * CELL_PIXEL_SIZE

getCellScreenCoordinateY(cell) == (SCREEN_HEIGHT \div 2) + cell[2] * CELL_PIXEL_SIZE

cellIsOnScreen_NoFarBorders(cell) ==
    LET leftBorder == -CELL_PIXEL_SIZE
        topBorder == -CELL_PIXEL_SIZE
    IN  /\ leftBorder <= getCellScreenCoordinateX(cell)
        /\ topBorder <= getCellScreenCoordinateY(cell)

cellIsOnScreen_SwappedExtent(cell) ==
    LET leftBorder == -CELL_PIXEL_SIZE
        rightBorder == SCREEN_HEIGHT + CELL_PIXEL_SIZE
        topBorder == -CELL_PIXEL_SIZE
        bottomBorder == SCREEN_WIDTH + CELL_PIXEL_SIZE
    IN  /\ leftBorder <= getCellScreenCoordinateX(cell)
        /\ getCellScreenCoordinateX(cell) <= rightBorder
        /\ topBorder <= getCellScreenCoordinateY(cell)
        /\ getCellScreenCoordinateY(cell) <= bottomBorder

cellIsOnScreen(cell) ==
    LET leftBorder == -CELL_PIXEL_SIZE
        rightBorder == SCREEN_WIDTH + CELL_PIXEL_SIZE
        topBorder == -CELL_PIXEL_SIZE
        bottomBorder == SCREEN_HEIGHT + CELL_PIXEL_SIZE
    IN  /\ leftBorder <= getCellScreenCoordinateX(cell)
        /\ getCellScreenCoordinateX(cell) <= rightBorder
        /\ topBorder <= getCellScreenCoordinateY(cell)
        /\ getCellScreenCoordinateY(cell) <= bottomBorder

\* ------------------------------------------------- simulateGeneration
\* Lines 107-112: the inner loop over the 9 offsets around curCell.  One
\* offset adds one to aliveNeighbours when its cell passes the three tests,
\* so the loop's result is the number of offsets that pass.
\* The test neighbour != curCell left out: offset (0, 0) counts the cell itself.
countAliveNeighbours_CountsItself(curCell, cur) ==
    Cardinality({ x \in Offsets :
        LET neighbour == getNthNeighbour(curCell, x)
        IN  isWithinBounds(neighbour) /\ neighbour \in cur })

countAliveNeighbours(curCell, cur) ==
    Cardinality({ x \in Offsets :
        LET neighbour == getNthNeighbour(curCell, x)
        IN  /\ isWithinBounds(neighbour)
            /\ neighbour \in cur
            /\ neighbour # curCell })

\* The test that the cell is alive left out: any cell with 2 neighbours lives.
aliveNextGen_BirthOnTwo(curCell, cur) ==
    LET aliveNeighbours == countAliveNeighbours(curCell, cur)
    IN  2 <= aliveNeighbours /\ aliveNeighbours <= 3

\* Survival only with exactly 2 neighbours, birth only with exactly 3.
aliveNextGen_SurviveOnTwoOnly(curCell, cur) ==
    LET aliveNeighbours == countAliveNeighbours(curCell, cur)
    IN  \/ (curCell \in cur /\ aliveNeighbours = 2)
        \/ (curCell \notin cur /\ aliveNeighbours = 3)

\* Line 116.
aliveNextGen(curCell, cur) ==
    LET aliveNeighbours == countAliveNeighbours(curCell, cur)
    IN  \/ (curCell \in cur /\ 2 <= aliveNeighbours /\ aliveNeighbours <= 3)
        \/ aliveNeighbours = 3

\* The candidate's own range test left out.
visitCandidate_NoBoundsCheck(acc, aliveCell, i, cur) ==
    LET curCell == getNthNeighbour(aliveCell, i)
    IN  IF curCell \notin acc.next
        THEN [ next |-> IF aliveNextGen(curCell, cur)
                        THEN acc.next \cup {curCell}
                        ELSE acc.next,
               candidates |-> acc.candidates + 1,
               checks |-> acc.checks + Len(NEIGHBOUR_ADJUSTMENT) ]
        ELSE [ acc EXCEPT !.candidates = @ + 1 ]

\* Lines 103-117: one pass of the loop over i.  acc carries the next
\* generation built so far and the two loop counters: candidates counts the
\* passes of this loop, checks the passes of the inner loop of line 108.
visitCandidate(acc, aliveCell, i, cur) ==
    LET curCell == getNthNeighbour(aliveCell, i)
    IN  IF isWithinBounds(curCell) /\ curCell \notin acc.next
        THEN [ next |-> IF aliveNextGen(curCell, cur)
                        THEN acc.next \cup {curCell}
                        ELSE acc.next,
               candidates |-> acc.candidates + 1,
               checks |-> acc.checks + Len(NEIGHBOUR_ADJUSTMENT) ]
        ELSE [ acc EXCEPT !.candidates = @ + 1 ]

\* TLC evaluates an operator's argument when it is first used.  A loop
\* written as a recursion hands each pass the result of the pass before;
\* FirstThen(v, e) has v evaluated before e, so that a pass is complete before
\* the next one starts and evaluations nest no deeper than the loops do.
FirstThen(v, e) == IF v = v THEN e ELSE e

\* Line 102: for i in range(len(NEIGHBOUR_ADJUSTMENT)), from offset i on.
RECURSIVE scanNeighbourhood(_, _, _, _)
scanNeighbourhood(acc, aliveCell, i, cur) ==
    IF i \notin Offsets
    THEN acc
    ELSE FirstThen(acc,
             scanNeighbourhood(visitCandidate(acc, aliveCell, i, cur), aliveCell, i + 1, cur))

\* Line 101: for aliveCell in self.curGenAliveCells, the cells coming in
\* the sequence order, from its k-th element on.
RECURSIVE scanAliveCells(_, _, _, _)
scanAliveCells(acc, order, k, cur) ==
    IF k > Len(order)
    THEN acc
    ELSE FirstThen(acc,
             scanAliveCells(scanNeighbourhood(acc, order[k], 0, cur), order, k + 1, cur))

\* A Python set enumerates its members in an order the language leaves
\* open.  The model offers two: ascending and descending by (x, y).
CellLess(a, b) == a[1] < b[1] \/ (a[1] = b[1] /\ a[2] < b[2])

RECURSIVE Ascending(_)
Ascending(S) ==
    IF S = {}
    THEN <<>>
    ELSE LET least == CHOOSE c \in S : \A d \in S : d = c \/ CellLess(c, d)
         IN  <<least>> \o Ascending(S \ {least})

Reversed(s) == [ k \in 1 .. Len(s) |-> s[Len(s) + 1 - k] ]

IterationOrders(S) == { Ascending(S), Reversed(Ascending(S)) }

\* An early return on an empty grid, placed before the increment.
incrementGen_SkipsEmptyGrid(gen) == IF curGenAliveCells = {} THEN gen ELSE gen + 1

\* Line 123.
incrementGen(gen) == gen + 1

NoWork == [ candidates |-> 0, checks |-> 0 ]

\* No simulateGeneration is in progress.
Idle ==
    [ at |-> "idle", todo |-> {}, aliveCell |-> <<0, 0>>, i |-> 0,
      order |-> <<>>, skipped |-> FALSE ]

Began(op) == [ op |-> op, cells |-> curGenAliveCells, gen |-> curGen ]

\* ------------------------------------------------------------ the calls
\* gameOfLife(): the object as __init__ leaves it.
Constructed ==
    /\ curGenAliveCells = {}
    /\ nextGenAliveCells = {}
    /\ curGen = 0
    /\ stdout = <<>>
    /\ surface = {}
    /\ work = NoWork
    /\ call = [ op |-> "__init__", cells |-> {}, gen |-> 0 ]

\* The methods called on the object directly: the program of __main__ is
\* not running.
NoProgram ==
    /\ pc = "none"
    /\ running = FALSE
    /\ stdin = <<>>
    /\ events = <<>>
    /\ delivered = 0
    /\ keyGen = -1
    /\ typed = <<>>
    /\ shown = [ printed |-> <<>>, drawn |-> <<>> ]

Init == Constructed /\ NoProgram /\ loop = Idle

addAliveCell(x, y) ==
    LET cell == <<x, y>>
    IN  /\ Cardinality(curGenAliveCells) < MaxLive
        /\ curGenAliveCells' = IF isWithinBounds(cell)
                               THEN curGenAliveCells \cup {cell}
                               ELSE curGenAliveCells
        /\ stdout' = <<>>
        /\ surface' = {}
        /\ work' = NoWork
        /\ call' = Began("addAliveCell")
        /\ UNCHANGED <<nextGenAliveCells, curGen>>

simulateGeneration ==
    /\ curGen < MaxGen
    /\ \E order \in IterationOrders(curGenAliveCells) :
          LET start == [ next |-> nextGenAliveCells, candidates |-> 0, checks |-> 0 ]
          IN  \E done \in { scanAliveCells(start, order, 1, curGenAliveCells) } :
                /\ curGenAliveCells' = done.next
                /\ work' = [ candidates |-> done.candidates, checks |-> done.checks ]
    /\ nextGenAliveCells' = {}
    /\ curGen' = incrementGen(curGen)
    /\ stdout' = <<>>
    /\ surface' = {}
    /\ call' = Began("simulateGeneration")

\* The two coordinates of the printed window exchanged.
gridToken_Transposed(x, y) ==
    IF << y - (SIZE_OF_DISPLAY_GRID \div 2), x - (SIZE_OF_DISPLAY_GRID \div 2) >>
           \in curGenAliveCells
    THEN "1"
    ELSE "0"

\* printGrid: the header, SIZE_OF_DISPLAY_GRID lines, and the empty line of
\* the closing print().  A line is the sequence of its tokens ("1 " and "0 "
\* in the code, each token followed by one space).
gridToken(x, y) ==
    IF << x - (SIZE_OF_DISPLAY_GRID \div 2), y - (SIZE_OF_DISPLAY_GRID \div 2) >>
           \in curGenAliveCells
    THEN "1"
    ELSE "0"

lineToPrint(y) == [ k \in 1 .. SIZE_OF_DISPLAY_GRID |-> gridToken(k - 1, y) ]

printGrid ==
    /\ stdout' = << <<"gen", curGen>> >>
                    \o [ k \in 1 .. SIZE_OF_DISPLAY_GRID |-> lineToPrint(k - 1) ]
                    \o << <<>> >>
    /\ surface' = {}
    /\ work' = NoWork
    /\ call' = Began("printGrid")
    /\ UNCHANGED <<curGenAliveCells, nextGenAliveCells, curGen>>

\* drawCells: the surface is filled with the background, then one
\* rectangle (left, top, width, height) is drawn per alive cell on screen.
cellRect(cell) ==
    << getCellScreenCoordinateX(cell), getCellScreenCoordinateY(cell),
       CELL_PIXEL_SIZE, CELL_PIXEL_SIZE >>

drawCells ==
    /\ surface' = { cellRect(cell) : cell \in { c \in curGenAliveCells : cellIsOnScreen(c) } }
    /\ stdout' = <<>>
    /\ work' = NoWork
    /\ call' = Began("drawCells")
    /\ UNCHANGED <<curGenAliveCells, nextGenAliveCells, curGen>>

Next ==
    \/ \E x \in InputCoords, y \in InputCoords : addAliveCell(x, y) /\ UNCHANGED <<mainVars, loop>>
    \/ simulateGeneration /\ UNCHANGED <<mainVars, loop>>
    \/ printGrid /\ UNCHANGED <<mainVars, loop>>
    \/ drawCells /\ UNCHANGED <<mainVars, loop>>

Spec == Init /\ [][Next]_vars

\* --------------------------------------------- stepping a populated grid
\* The grid as getInput leaves it, before the first simulateGeneration: any
\* set of at most MaxSeed cells, and any set of cells inside a 3 x 3 block
\* around the origin, next to the least corner or next to the greatest one.
Block(cx, cy) == { c \in Cells : c[1] \in (cx - 1) .. (cx + 1) /\ c[2] \in (cy - 1) .. (cy + 1) }

RECURSIVE SetsUpTo(_)
SetsUpTo(n) ==
    IF n = 0
    THEN { {} }
    ELSE LET smaller == SetsUpTo(n - 1)
         IN  smaller \cup { S \cup {c} : S \in smaller, c \in Cells }

SeedSets ==
    SetsUpTo(MaxSeed)
        \cup SUBSET Block(0, 0)
        \cup SUBSET Block(MinCoord + 1, MinCoord + 1)
        \cup SUBSET Block(MaxCoord - 1, MaxCoord - 1)

StepInit ==
    /\ curGenAliveCells \in SeedSets
    /\ nextGenAliveCells = {}
    /\ curGen = 0
    /\ stdout = <<>>
    /\ surface = {}
    /\ work = NoWork
    /\ call = [ op |-> "getInput", cells |-> {}, gen |-> 0 ]
    /\ NoProgram
    /\ loop = Idle

StepNext == simulateGeneration /\ UNCHANGED <<mainVars, loop>>

StepSpec == StepInit /\ [][StepNext]_vars

\* ------------------------------------- simulateGeneration pass by pass
\* simulateGeneration followed through its loops, one pass of the loop over i
\* at a time.  The loop of line 101 takes the alive cells in whatever order
\* the set yields them: any cell not yet reached may come next.

\* Line 117 written to the set the loops are reading.
addToNextGen_InPlace(sets, curCell) == [ sets EXCEPT !.cur = @ \cup { curCell } ]

\* Line 117: self.nextGenAliveCells.add(curCell); sets holds the two sets of
\* the object.
addToNextGen(sets, curCell) == [ sets EXCEPT !.next = @ \cup { curCell } ]

\* Line 121 left out.
clearNextGen_Forgotten(next) == next

\* Line 121: self.nextGenAliveCells.clear().
clearNextGen(next) == {}

beginStep ==
    /\ loop.at = "idle"
    /\ curGen < MaxGen
    /\ call' = Began("simulateGeneration")
    /\ loop' = [ Idle EXCEPT !.at = "for aliveCell", !.todo = curGenAliveCells ]
    /\ stdout' = <<>>
    /\ surface' = {}
    /\ work' = NoWork
    /\ UNCHANGED <<curGenAliveCells, nextGenAliveCells, curGen>>

\* Line 101 yields the next alive cell.
nextAliveCell ==
    /\ loop.at = "for aliveCell"
    /\ \E aliveCell \in loop.todo :
          loop' = [ loop EXCEPT !.at = "for i", !.todo = @ \ { aliveCell },
                                !.aliveCell = aliveCell, !.i = 0,
                                !.order = Append(@, aliveCell) ]
    /\ UNCHANGED <<gameVars>>

\* Lines 102-117: one pass of the loop over i.
visitNeighbour ==
    /\ loop.at = "for i"
    /\ LET curCell == getNthNeighbour(loop.aliveCell, loop.i)
           sets == [ cur |-> curGenAliveCells, next |-> nextGenAliveCells ]
           after == IF /\ isWithinBounds(curCell)
                       /\ curCell \notin nextGenAliveCells
                       /\ aliveNextGen(curCell, curGenAliveCells)
                    THEN addToNextGen(sets, curCell)
                    ELSE sets
       IN  /\ curGenAliveCells' = after.cur
           /\ nextGenAliveCells' = after.next
    /\ LET met == getNthNeighbour(loop.aliveCell, loop.i) \in nextGenAliveCells
       IN  loop' = IF loop.i + 1 \in Offsets
                   THEN [ loop EXCEPT !.i = @ + 1, !.skipped = @ \/ met ]
                   ELSE [ loop EXCEPT !.at = "for aliveCell", !.skipped = @ \/ met ]
    /\ UNCHANGED <<curGen, stdout, surface, work, call>>

\* Lines 120-123, once the loop of line 101 has run out of cells.
endStep ==
    /\ loop.at = "for aliveCell"
    /\ loop.todo = {}
    /\ curGenAliveCells' = nextGenAliveCells
    /\ nextGenAliveCells' = clearNextGen(nextGenAliveCells)
    /\ curGen' = incrementGen(curGen)
    /\ loop' = [ Idle EXCEPT !.order = loop.order, !.skipped = loop.skipped ]
    /\ UNCHANGED <<stdout, surface, work, call>>

\* The seeds: up to MaxOrdered cells of the two columns at the upper end of
\* the range, rows -1 to 1, where neighbourhoods reach out of the range.
OrderedSeeds ==
    { S \in SUBSET { c \in Block(MaxCoord, 0) : c[1] >= MaxCoord - 1 } :
          Cardinality(S) <= MaxOrdered }

PassInit ==
    /\ curGenAliveCells \in OrderedSeeds
    /\ nextGenAliveCells = {}
    /\ curGen = 0
    /\ stdout = <<>>
    /\ surface = {}
    /\ work = NoWork
    /\ call = [ op |-> "getInput", cells |-> {}, gen |-> 0 ]
    /\ NoProgram
    /\ loop = Idle

PassNext ==
    \/ beginStep /\ UNCHANGED mainVars
    \/ nextAliveCell /\ UNCHANGED mainVars
    \/ visitNeighbour /\ UNCHANGED mainVars
    \/ endStep /\ UNCHANGED mainVars

PassSpec == PassInit /\ [][PassNext]_vars

\* ------------------------------------------------- drawCells at the edges
\* drawCells on its own, called on live sets of up to MaxDrawn cells that lie
\* around the four edges of the surface.  The surface is 190 by 100 cells
\* with its centre at cell (0, 0): columns -95 .. 94 and rows -50 .. 49 are
\* on it.  drawCells does not call isWithinBounds; the cells here are far
\* inside the range addAliveCell accepts in the program.
EdgeColumns ==
    LET half == (SCREEN_WIDTH \div 2) \div CELL_PIXEL_SIZE
    IN  { -half - 2, -half - 1, -half, 0, half - 1, half, half + 1, half + 2 }

EdgeRows ==
    LET half == (SCREEN_HEIGHT \div 2) \div CELL_PIXEL_SIZE
    IN  { -half - 2, -half - 1, -half, 0, half - 1, half, half + 1, half + 2 }

EdgeCells == EdgeColumns \X EdgeRows

RECURSIVE SetsOfUpTo(_, _)
SetsOfUpTo(U, n) ==
    IF n = 0 THEN { {} }
    ELSE LET smaller == SetsOfUpTo(U, n - 1)
         IN  smaller \cup { S \cup { c } : S \in smaller, c \in U }

DrawInit ==
    /\ curGenAliveCells \in SetsOfUpTo(EdgeCells, MaxDrawn)
    /\ nextGenAliveCells = {}
    /\ curGen = 0
    /\ stdout = <<>>
    /\ surface = {}
    /\ work = NoWork
    /\ call = [ op |-> "getInput", cells |-> {}, gen |-> 0 ]
    /\ NoProgram
    /\ loop = Idle

DrawNext == drawCells /\ UNCHANGED <<mainVars, loop>>

DrawSpec == DrawInit /\ [][DrawNext]_vars

\* ------------------------------------------------ the program of __main__
\* A line of input is the sequence of its pieces: a numeral, or one of the
\* strings "(", ")", ", " and ",".  The empty sequence is the empty line.
Num(n) == [ t |-> "num", v |-> n ]
Sym(c) == [ t |-> c, v |-> 0 ]

CoordinateLine(x, y) == << Sym("("), Num(x), Sym(", "), Num(y), Sym(")") >>

\* re.split(', |\(|\)', position): the fields between the separators ", ",
\* "(" and ")".  A comma without a space after it separates nothing.
isSeparator(piece) == piece.t \in { ", ", "(", ")" }

RECURSIVE reSplit(_)
reSplit(position) ==
    IF position = <<>>
    THEN << <<>> >>
    ELSE LET before == reSplit(SubSeq(position, 1, Len(position) - 1))
             last == position[Len(position)]
         IN  IF isSeparator(last)
             THEN Append(before, <<>>)
             ELSE [ before EXCEPT ![Len(before)] = Append(@, last) ]

\* int(field) returns a value iff the field is one numeral.
isNumeral(field) == Len(field) = 1 /\ field[1].t = "num"
int(field) == field[1].v

\* Line 133 raises IndexError or ValueError unless coordinates[1] and
\* coordinates[2] exist and are numerals (TLA+ counts them as 2 and 3).
parses(coordinates) ==
    /\ Len(coordinates) >= 3
    /\ isNumeral(coordinates[2])
    /\ isNumeral(coordinates[3])

InputLines ==
    { <<>>,
      CoordinateLine(0, 0),
      CoordinateLine(-1, 0),
      CoordinateLine(0, MinCoord),
      CoordinateLine(MaxCoord + 1, 0),
      << Sym("("), Num(0), Sym(","), Num(0), Sym(")") >> }

InputTexts == UNION { [ 1 .. n -> InputLines ] : n \in 0 .. MaxLines }

MainInit ==
    /\ Constructed
    /\ pc = "getInput"
    /\ running = FALSE
    /\ stdin \in InputTexts
    /\ events = <<>>
    /\ delivered = 0
    /\ keyGen = -1
    /\ typed = stdin
    /\ shown = [ printed |-> <<>>, drawn |-> <<>> ]
    /\ loop = Idle

\* Line 130: position == "".
isBlankLine_Never(position) == FALSE

isBlankLine(position) == position = <<>>

\* One pass of the loop of getInput.  input() raises EOFError at the end of
\* the input; any other exception leaves the program.
getInput ==
    /\ pc = "getInput"
    /\ \/ /\ stdin = <<>>
          /\ pc' = "printGrid"
          /\ UNCHANGED <<gameVars, stdin>>
       \/ /\ stdin # <<>>
          /\ isBlankLine(Head(stdin))
          /\ stdin' = Tail(stdin)
          /\ pc' = "printGrid"
          /\ UNCHANGED gameVars
       \/ /\ stdin # <<>>
          /\ ~isBlankLine(Head(stdin))
          /\ parses(reSplit(Head(stdin)))
          /\ stdin' = Tail(stdin)
          /\ LET coordinates == reSplit(Head(stdin))
             IN  addAliveCell(int(coordinates[2]), int(coordinates[3]))
          /\ pc' = "getInput"
       \/ /\ stdin # <<>>
          /\ ~isBlankLine(Head(stdin))
          /\ ~parses(reSplit(Head(stdin)))
          /\ stdin' = Tail(stdin)
          /\ pc' = "crashed"
          /\ UNCHANGED gameVars
    /\ UNCHANGED <<running, events, delivered, keyGen, typed, shown, loop>>

\* What a printGrid or drawCells of the program shows: the generation
\* number and the live set at the call.
Showing == [ gen |-> curGen, cells |-> curGenAliveCells ]

\* Lines 140-142.
firstPrintGrid ==
    /\ pc = "printGrid"
    /\ printGrid
    /\ pc' = "drawCells"
    /\ shown' = [ shown EXCEPT !.printed = Append(@, Showing) ]
    /\ UNCHANGED <<running, stdin, events, delivered, keyGen, typed, loop>>

firstDrawCells ==
    /\ pc = "drawCells"
    /\ drawCells
    /\ pc' = "running = True"
    /\ shown' = [ shown EXCEPT !.drawn = Append(@, Showing) ]
    /\ UNCHANGED <<running, stdin, events, delivered, keyGen, typed, loop>>

setRunning ==
    /\ pc = "running = True"
    /\ running' = TRUE
    /\ pc' = "while"
    /\ UNCHANGED <<gameVars, stdin, events, delivered, keyGen, typed, shown, loop>>

\* Line 144.
whileRunning ==
    /\ pc = "while"
    /\ pc' = IF running THEN "event.get" ELSE "quit"
    /\ UNCHANGED <<gameVars, running, stdin, events, delivered, keyGen, typed, shown, loop>>

\* Line 145: pygame.event.get() empties the queue; its result is dropped.
discardEvents ==
    /\ pc = "event.get"
    /\ events' = <<>>
    /\ pc' = "simulateGeneration"
    /\ UNCHANGED <<gameVars, running, stdin, delivered, keyGen, typed, shown, loop>>

\* The step followed by the test for key presses when it emptied the grid,
\* nothing being left to show.
loopSimulateGeneration_SkipsEmptyFrame ==
    /\ pc = "simulateGeneration"
    /\ simulateGeneration
    /\ pc' = IF curGenAliveCells' = {} THEN "for event" ELSE "loop drawCells"
    /\ UNCHANGED <<running, stdin, events, delivered, keyGen, typed, shown, loop>>

\* Lines 147-151.
loopSimulateGeneration ==
    /\ pc = "simulateGeneration"
    /\ simulateGeneration
    /\ pc' = "loop drawCells"
    /\ UNCHANGED <<running, stdin, events, delivered, keyGen, typed, shown, loop>>

loopDrawCells ==
    /\ pc = "loop drawCells"
    /\ drawCells
    /\ pc' = "loop printGrid"
    /\ shown' = [ shown EXCEPT !.drawn = Append(@, Showing) ]
    /\ UNCHANGED <<running, stdin, events, delivered, keyGen, typed, loop>>

loopPrintGrid ==
    /\ pc = "loop printGrid"
    /\ printGrid
    /\ pc' = "for event"
    /\ shown' = [ shown EXCEPT !.printed = Append(@, Showing) ]
    /\ UNCHANGED <<running, stdin, events, delivered, keyGen, typed, loop>>

\* Lines 154-156: the queue is emptied again, and a KEYDOWN among the events
\* it held clears running.
checkKeys ==
    /\ pc = "for event"
    /\ running' = IF \E k \in 1 .. Len(events) : events[k] = "KEYDOWN"
                  THEN FALSE
                  ELSE running
    /\ events' = <<>>
    /\ pc' = "while"
    /\ UNCHANGED <<gameVars, stdin, delivered, keyGen, typed, shown, loop>>

\* Line 158.
quit ==
    /\ pc = "quit"
    /\ pc' = "done"
    /\ UNCHANGED <<gameVars, running, stdin, events, delivered, keyGen, typed, shown, loop>>

\* The host's input system puts an event into the queue, at any moment of
\* the program's life.  A frame is one pass of the loop, lines 145-156; the
\* frame in progress shows generation curGen + 1 until simulateGeneration
\* has run, curGen afterwards.
InFrame == pc \in { "event.get", "simulateGeneration", "loop drawCells", "loop printGrid", "for event" }

frameGen == IF pc \in { "event.get", "simulateGeneration" } THEN curGen + 1 ELSE curGen

EventTypes == { "KEYDOWN", "MOUSEMOTION" }

hostEvent(type) ==
    /\ pc \notin { "none", "done", "crashed" }
    /\ delivered < MaxEvents
    /\ delivered' = delivered + 1
    /\ events' = Append(events, type)
    /\ keyGen' = IF type = "KEYDOWN" /\ InFrame /\ keyGen = -1 THEN frameGen ELSE keyGen
    /\ UNCHANGED <<gameVars, pc, running, stdin, typed, shown, loop>>

MainNext ==
    \/ getInput
    \/ firstPrintGrid
    \/ firstDrawCells
    \/ setRunning
    \/ whileRunning
    \/ discardEvents
    \/ loopSimulateGeneration
    \/ loopDrawCells
    \/ loopPrintGrid
    \/ checkKeys
    \/ quit
    \/ \E type \in EventTypes : hostEvent(type)

MainSpec == MainInit /\ [][MainNext]_vars

\* ============================================================ the claims
\* What the claims speak of, written without the operators of the model.
InRange(c) ==
    /\ c[1] >= MinCoord /\ c[1] <= MaxCoord
    /\ c[2] >= MinCoord /\ c[2] <= MaxCoord

Distance(a, b) == IF a >= b THEN a - b ELSE b - a

Adjacent(c, d) == c # d /\ Distance(c[1], d[1]) <= 1 /\ Distance(c[2], d[2]) <= 1

LiveNeighbours(c, S) == Cardinality({ d \in S : Adjacent(c, d) })

Stepped == call.op = "simulateGeneration"

\* The cells one step outside the range, all around it.
Ring == { c \in ((MinCoord - 1) .. (MaxCoord + 1)) \X ((MinCoord - 1) .. (MaxCoord + 1)) : ~InRange(c) }

\* C1: after one simulateGeneration an in-range cell is alive iff it was
\* alive and had 2 or 3 live cells among its 8 adjacent cells, or it was
\* dead and had exactly 3.
C1_LifeRule ==
    Stepped =>
        \A c \in Cells :
            c \in curGenAliveCells <=>
                \/ (c \in call.cells /\ LiveNeighbours(c, call.cells) \in {2, 3})
                \/ (c \notin call.cells /\ LiveNeighbours(c, call.cells) = 3)

\* A step in which a cell was born, one survived, one died of fewer than 2
\* neighbours, one died of more than 3, and dead cells with 2 and with 4
\* neighbours stayed dead.
C1_Witness ==
    /\ Stepped
    /\ \E c \in Cells \ call.cells : LiveNeighbours(c, call.cells) = 3 /\ c \in curGenAliveCells
    /\ \E c \in call.cells : LiveNeighbours(c, call.cells) \in {2, 3} /\ c \in curGenAliveCells
    /\ \E c \in call.cells : LiveNeighbours(c, call.cells) < 2 /\ c \notin curGenAliveCells
    /\ \E c \in call.cells : LiveNeighbours(c, call.cells) > 3 /\ c \notin curGenAliveCells
    /\ \E c \in Cells \ call.cells : LiveNeighbours(c, call.cells) = 2 /\ c \notin curGenAliveCells
    /\ \E c \in Cells \ call.cells : LiveNeighbours(c, call.cells) >= 4 /\ c \notin curGenAliveCells

\* C3: addAliveCell(x, y) adds (x, y) to the live set iff both coordinates
\* are in range; out of range it leaves the live set as it was; in either
\* case the generation counter stays.
C3_AddIffInRange ==
    [][ \A x \in InputCoords, y \in InputCoords :
            addAliveCell(x, y) =>
                /\ curGen' = curGen
                /\ curGenAliveCells' = IF InRange(<<x, y>>)
                                       THEN curGenAliveCells \cup { <<x, y>> }
                                       ELSE curGenAliveCells ]_vars

\* An addAliveCell that put the cell (MaxCoord, 0) into the live set.
C3_Witness ==
    /\ call.op = "addAliveCell"
    /\ <<MaxCoord, 0>> \in curGenAliveCells \ call.cells

\* C4: every live cell is in range, and a cell alive after a step had 2 or
\* 3 live cells among the in-range cells truly adjacent to it: nothing out of
\* range is made alive or counted, nothing wraps around.
C4_LiveCellsInRange ==
    /\ \A c \in curGenAliveCells : InRange(c)
    /\ Stepped =>
          \A c \in curGenAliveCells :
              LiveNeighbours(c, { d \in call.cells : InRange(d) }) \in {2, 3}

\* A step from a grid in which a cell just outside the range had exactly 3
\* live neighbours, with a cell on the range boundary still alive after it.
C4_Witness ==
    /\ Stepped
    /\ \E o \in Ring : LiveNeighbours(o, call.cells) = 3
    /\ \E c \in curGenAliveCells : c[1] = MaxCoord \/ c[2] = MaxCoord

\* C5: the generation counter starts at 0, every simulateGeneration adds
\* exactly 1 to it whatever the live set holds, and no other call changes it.
C5_GenerationCounter ==
    /\ call.op = "__init__" => curGen = 0
    /\ Stepped => curGen = call.gen + 1
    /\ call.op \in {"addAliveCell", "printGrid", "drawCells"} => curGen = call.gen

\* A second step, taken from an empty grid.
C5_Witness == Stepped /\ call.cells = {} /\ curGen = 2

HorizontalBlinker == { <<-1, 0>>, <<0, 0>>, <<1, 0>> }
VerticalBlinker == { <<0, -1>>, <<0, 0>>, <<0, 1>> }

\* C6: one step takes the horizontal blinker to the vertical one, and one
\* step takes the vertical blinker back to the horizontal one.
C6_Blinker ==
    /\ (Stepped /\ call.cells = HorizontalBlinker) => curGenAliveCells = VerticalBlinker
    /\ (Stepped /\ call.cells = VerticalBlinker) => curGenAliveCells = HorizontalBlinker

\* The horizontal blinker again, after the second step.
C6_Witness ==
    /\ Stepped /\ curGen = 2
    /\ call.cells = VerticalBlinker
    /\ curGenAliveCells = HorizontalBlinker

BlockStillLife == { <<0, 0>>, <<1, 0>>, <<0, 1>>, <<1, 1>> }

\* C7: a step from the 2 x 2 block leaves exactly the 2 x 2 block.
C7_BlockStillLife ==
    (Stepped /\ call.cells = BlockStillLife) => curGenAliveCells = BlockStillLife

\* The block after two steps from the block.
C7_Witness ==
    /\ Stepped /\ curGen = 2
    /\ call.cells = BlockStillLife
    /\ curGenAliveCells = BlockStillLife

\* C8: a step from the empty live set leaves the live set empty and adds 1
\* to the generation counter.
C8_EmptyStaysEmpty ==
    (Stepped /\ call.cells = {}) => (curGenAliveCells = {} /\ curGen = call.gen + 1)

\* The empty grid stepped from generation 0.
C8_Witness == Stepped /\ call.cells = {} /\ call.gen = 0 /\ curGenAliveCells = {}

\* C9: a step examines at most 9 candidates per live cell and at most 9
\* offsets per candidate, and leaves a finite set of in-range cells, an
\* empty next-generation set and the counter one higher.
C9_StepIsBounded ==
    Stepped =>
        /\ work.candidates <= 9 * Cardinality(call.cells)
        /\ work.checks <= 9 * work.candidates
        /\ IsFiniteSet(curGenAliveCells)
        /\ \A c \in curGenAliveCells : InRange(c)
        /\ nextGenAliveCells = {}
        /\ curGen = call.gen + 1

\* A step over several live cells that skipped candidates (out of range, or
\* already in the next generation) and examined the others.
C9_Witness ==
    /\ Stepped
    /\ Cardinality(call.cells) >= 3
    /\ work.candidates = 9 * Cardinality(call.cells)
    /\ work.checks > 0
    /\ work.checks < 9 * work.candidates
    /\ curGenAliveCells # {}

\* C10: printGrid prints the header "gen <curGen>", then
\* SIZE_OF_DISPLAY_GRID lines of SIZE_OF_DISPLAY_GRID tokens, the token in
\* column i of line j being "1" iff (i - 10, j - 10) is alive and "0"
\* otherwise, then an empty line; it changes neither the live set nor the
\* generation counter.
C10_PrintGridIsAView ==
    call.op = "printGrid" =>
        /\ Len(stdout) = 22
        /\ stdout[1] = <<"gen", curGen>>
        /\ stdout[22] = <<>>
        /\ \A j \in 0 .. 19 :
              /\ Len(stdout[j + 2]) = 20
              /\ \A i \in 0 .. 19 :
                    stdout[j + 2][i + 1] =
                        IF <<i - 10, j - 10>> \in curGenAliveCells THEN "1" ELSE "0"
        /\ curGenAliveCells = call.cells
        /\ curGen = call.gen

\* A grid printed after a step, with (MaxCoord, 0) alive and (0, MaxCoord) dead.
C10_Witness ==
    /\ call.op = "printGrid"
    /\ curGen >= 1
    /\ <<MaxCoord, 0>> \in curGenAliveCells
    /\ <<0, MaxCoord>> \notin curGenAliveCells

\* C2: a key pressed while the loop is running ends the loop after the frame
\* in progress: no generation beyond that frame's generation is simulated.
C2_KeyPressEndsLoop == keyGen >= 0 => curGen <= keyGen


\* ---------------------------------------------------------------- C11
\* The square of a cell on the surface, as the claims describe it: side
\* CELL_PIXEL_SIZE with its top left corner at (screenX, screenY).  It covers
\* the pixel columns screenX .. screenX + CELL_PIXEL_SIZE - 1 and the pixel
\* rows screenY .. screenY + CELL_PIXEL_SIZE - 1; the surface has the pixel
\* columns 0 .. SCREEN_WIDTH - 1 and the pixel rows 0 .. SCREEN_HEIGHT - 1.
ScreenX(c) == (SCREEN_WIDTH \div 2) + c[1] * CELL_PIXEL_SIZE
ScreenY(c) == (SCREEN_HEIGHT \div 2) + c[2] * CELL_PIXEL_SIZE
Square(c) == << ScreenX(c), ScreenY(c), CELL_PIXEL_SIZE, CELL_PIXEL_SIZE >>

OverlapsSurface(c) ==
    /\ ScreenX(c) < SCREEN_WIDTH
    /\ ScreenX(c) + CELL_PIXEL_SIZE > 0
    /\ ScreenY(c) < SCREEN_HEIGHT
    /\ ScreenY(c) + CELL_PIXEL_SIZE > 0

EntirelyOffSurface(c) == ~OverlapsSurface(c)

\* More than one cell's width away from the surface on some side.
BeyondMargin(c) ==
    \/ ScreenX(c) < -CELL_PIXEL_SIZE
    \/ ScreenX(c) > SCREEN_WIDTH + CELL_PIXEL_SIZE
    \/ ScreenY(c) < -CELL_PIXEL_SIZE
    \/ ScreenY(c) > SCREEN_HEIGHT + CELL_PIXEL_SIZE

\* C11 as stated: after drawCells no rectangle has been drawn for a live
\* cell whose square falls entirely outside the surface.
C11_OffSurfaceSkipped ==
    call.op = "drawCells" =>
        \A c \in curGenAliveCells : EntirelyOffSurface(c) => Square(c) \notin surface

\* C11 amended: after drawCells no rectangle has been drawn for a live cell
\* whose square starts more than CELL_PIXEL_SIZE pixels left of or above the
\* surface, or more than CELL_PIXEL_SIZE pixels beyond its right or bottom
\* edge; a live cell whose square starts within that margin has its rectangle
\* drawn, also when the square falls entirely outside the surface.
C11_BeyondMarginSkipped ==
    call.op = "drawCells" =>
        \A c \in curGenAliveCells : BeyondMargin(c) <=> Square(c) \notin surface

\* drawCells has run on a live set with a cell beyond the margin, which it
\* skipped, and a cell off the surface but within the margin, which it drew.
C11_Witness ==
    /\ call.op = "drawCells"
    /\ \E c \in curGenAliveCells : BeyondMargin(c) /\ Square(c) \notin surface
    /\ \E c \in curGenAliveCells :
          EntirelyOffSurface(c) /\ ~BeyondMargin(c) /\ Square(c) \in surface

\* ---------------------------------------------------------------- C16
\* C16: after drawCells every live cell whose square overlaps the surface in
\* at least one pixel satisfies cellIsOnScreen and has its rectangle drawn.
C16_VisibleCellsDrawn ==
    call.op = "drawCells" =>
        \A c \in curGenAliveCells :
            OverlapsSurface(c) => cellIsOnScreen(c) /\ Square(c) \in surface

\* drawCells has drawn the cell in the bottom right corner of the surface
\* and the cell in its top left corner.
C16_Witness ==
    /\ call.op = "drawCells"
    /\ \E c \in curGenAliveCells :
          /\ ScreenX(c) + CELL_PIXEL_SIZE = SCREEN_WIDTH
          /\ ScreenY(c) + CELL_PIXEL_SIZE = SCREEN_HEIGHT
          /\ Square(c) \in surface
    /\ \E c \in curGenAliveCells :
          ScreenX(c) = 0 /\ ScreenY(c) = 0 /\ Square(c) \in surface

\* ---------------------------------------------------------------- C12
\* The input as the claim speaks of it.  A line holds a coordinate pair when
\* it reads "(x, y)"; the terminator is the first blank line, or the end of
\* the input when no line is blank.
HoldsPair(line) ==
    /\ Len(line) = 5
    /\ line[1].t = "(" /\ line[2].t = "num" /\ line[3].t = ", "
    /\ line[4].t = "num" /\ line[5].t = ")"

PairOn(line) == << line[2].v, line[4].v >>

Terminator(text) ==
    IF \E i \in 1 .. Len(text) : text[i] = <<>>
    THEN CHOOSE i \in 1 .. Len(text) :
             text[i] = <<>> /\ \A j \in 1 .. (i - 1) : text[j] # <<>>
    ELSE Len(text) + 1

\* The in-range pairs on the first n lines.
InRangePairs(text, n) ==
    { c \in { PairOn(text[i]) : i \in { j \in 1 .. n : HoldsPair(text[j]) } } : InRange(c) }

LinesRead == Len(typed) - Len(stdin)

\* C12: getInput reads the lines in order, one per pass, and none at or after
\* the terminator except the blank line itself: while it runs the lines read
\* all precede the terminator and the live set is the set of in-range pairs
\* on them; when it stops on a line it cannot parse, that line precedes the
\* terminator and holds no pair; once it has returned every line before the
\* terminator was a pair, the lines after the terminator are still unread,
\* and the live set of generation 0 is the set of in-range pairs that
\* precede the terminator.
C12_InputUpToTerminator ==
    /\ LinesRead \in 0 .. Len(typed)
    /\ stdin = SubSeq(typed, LinesRead + 1, Len(typed))
    /\ pc = "getInput" =>
          /\ LinesRead < Terminator(typed)
          /\ \A i \in 1 .. LinesRead : HoldsPair(typed[i])
          /\ curGenAliveCells = InRangePairs(typed, LinesRead)
    /\ pc = "crashed" =>
          /\ LinesRead \in 1 .. (Terminator(typed) - 1)
          /\ ~HoldsPair(typed[LinesRead])
          /\ curGenAliveCells = InRangePairs(typed, LinesRead)
    /\ pc \notin { "getInput", "crashed" } =>
          /\ LinesRead = IF Terminator(typed) <= Len(typed)
                         THEN Terminator(typed) ELSE Len(typed)
          /\ \A i \in 1 .. (Terminator(typed) - 1) : HoldsPair(typed[i])
          /\ curGen = 0 => curGenAliveCells = InRangePairs(typed, Terminator(typed) - 1)

\* getInput has returned on a blank line that came after an in-range pair,
\* which is alive, and before another in-range pair, which was never read.
C12_Witness ==
    /\ pc = "while"
    /\ curGen = 0
    /\ Len(typed) = 3
    /\ Terminator(typed) = 2
    /\ HoldsPair(typed[1]) /\ PairOn(typed[1]) \in curGenAliveCells
    /\ HoldsPair(typed[3]) /\ InRange(PairOn(typed[3]))
    /\ PairOn(typed[3]) \notin curGenAliveCells
    /\ stdin = << typed[3] >>

\* ---------------------------------------------------------------- C13
\* The rule of the game for cell c over the live set S.
RuleAlive(c, S) ==
    \/ (c \in S /\ LiveNeighbours(c, S) \in {2, 3})
    \/ (c \notin S /\ LiveNeighbours(c, S) = 3)

InStep == loop.at # "idle"

\* The candidate the pass about to run looks at.
Candidate ==
    << loop.aliveCell[1] + NEIGHBOUR_ADJUSTMENT[loop.i + 1][1],
       loop.aliveCell[2] + NEIGHBOUR_ADJUSTMENT[loop.i + 1][2] >>

\* C13: while a simulateGeneration is in progress the current live set is
\* the set the step began with; a pass leaves it alone and adds to the next
\* set its candidate exactly when the candidate is in range and the rule,
\* taken over the set the step began with, makes it alive; the current set
\* changes only in the step that ends the call, when no alive cell is left
\* to visit, and becomes the next set.
C13_NoInPlaceUpdate ==
    [][ /\ InStep => curGenAliveCells = call.cells
        /\ (InStep /\ loop'.at # "idle") =>
              /\ curGenAliveCells' = curGenAliveCells
              /\ nextGenAliveCells' =
                    IF /\ loop.at = "for i"
                       /\ InRange(Candidate)
                       /\ RuleAlive(Candidate, call.cells)
                    THEN nextGenAliveCells \cup { Candidate }
                    ELSE nextGenAliveCells
        /\ curGenAliveCells' # curGenAliveCells =>
              /\ loop.at = "for aliveCell" /\ loop.todo = {}
              /\ loop'.at = "idle"
              /\ curGenAliveCells' = nextGenAliveCells
      ]_vars

\* In the middle of a step a cell has been born into the next set and a cell
\* that the rule lets die is still in the current set.
C13_Witness ==
    /\ loop.at = "for i"
    /\ loop.todo # {}
    /\ \E c \in nextGenAliveCells : c \notin curGenAliveCells
    /\ \E c \in curGenAliveCells : ~RuleAlive(c, call.cells)

\* ---------------------------------------------------------------- C15
\* C15: between steps the next-generation set is empty, and whatever order
\* a step took the alive cells in, the live set it leaves is the one the
\* loops yield when they take the cells of the starting set in ascending
\* order.
C15_OrderIndependent ==
    ~InStep =>
        /\ nextGenAliveCells = {}
        /\ Stepped =>
              curGenAliveCells =
                  scanAliveCells([ next |-> {}, candidates |-> 0, checks |-> 0 ],
                                 Ascending(call.cells), 1, call.cells).next

\* A step has ended that took three alive cells in an order neither ascending
\* nor descending, met a candidate already in the next set, and left cells
\* alive.
C15_Witness ==
    /\ Stepped /\ ~InStep
    /\ Cardinality(call.cells) = 3
    /\ Len(loop.order) = 3
    /\ loop.order \notin IterationOrders(call.cells)
    /\ loop.skipped
    /\ curGenAliveCells # {}
    /\ curGenAliveCells # call.cells

\* ---------------------------------------------------------------- C14
FromZero(n) == [ k \in 1 .. n |-> k - 1 ]

\* A history shows generations 0, 1, 2, ... in order, each once, the first
\* with the live set the input left and each later one with the live set a
\* whole step makes of the one before.
ShowsEachOnce(history) ==
    /\ [ k \in 1 .. Len(history) |-> history[k].gen ] = FromZero(Len(history))
    /\ \A k \in 2 .. Len(history) :
          history[k].cells = { c \in Cells : RuleAlive(c, history[k - 1].cells) }

\* How many generations have been printed and drawn at each place of the
\* program, curGen being the number of calls of simulateGeneration so far.
PrintedSoFar ==
    CASE pc \in { "getInput", "crashed", "printGrid" } -> 0
      [] pc \in { "loop drawCells", "loop printGrid" } -> curGen
      [] OTHER -> curGen + 1

DrawnSoFar ==
    CASE pc \in { "getInput", "crashed", "printGrid", "drawCells" } -> 0
      [] pc = "loop drawCells" -> curGen
      [] OTHER -> curGen + 1

\* C14: generation 0 is printed, then drawn, before the first step; every
\* pass of the loop steps once and then draws and prints the new generation
\* once, so that at every place of the program the generations printed and
\* the generations drawn are 0, 1, 2, ... up to the current one, each once
\* and in order, and each shown live set is the whole step of the one shown
\* before it.
C14_EachGenerationShownOnce ==
    /\ Len(shown.printed) = PrintedSoFar
    /\ Len(shown.drawn) = DrawnSoFar
    /\ \A k \in 1 .. Len(shown.printed) :
          k <= Len(shown.drawn) => shown.printed[k] = shown.drawn[k]
    /\ ShowsEachOnce(IF Len(shown.printed) > Len(shown.drawn)
                     THEN shown.printed ELSE shown.drawn)
    /\ Len(shown.printed) > 0 =>
          shown.printed[1].cells = InRangePairs(typed, Terminator(typed) - 1)

\* Generations 0, 1 and 2 have been printed and drawn, generation 1 alive
\* and different from generation 0.
C14_Witness ==
    /\ pc = "for event"
    /\ curGen = 2
    /\ Len(shown.printed) = 3 /\ Len(shown.drawn) = 3
    /\ shown.drawn[2].cells # {}
    /\ shown.drawn[2].cells # shown.drawn[1].cells
    /\ shown.drawn[3].cells # shown.drawn[2].cells

====
